---- MODULE Spec2Model ----
(***************************************************************************)
(* Model of ConfigSynchronizer.cpp: the global configuration store, the    *)
(* length-prefixed wire format, the receiver thread (accept loop and       *)
(* connection handler), the foreground thread (load, send, command loop,   *)
(* shutdown) and the remote peer.                                          *)
(*                                                                         *)
(* A std::string is a sequence of one-character strings.  Positions are    *)
(* 1-based; npos is 0.                                                     *)
(***************************************************************************)
EXTENDS Integers, Sequences, FiniteSets, TLC

(***************************************************************************)
(* Bounds of the model.                                                    *)
(***************************************************************************)
MaxConns == 2       \* inbound connections the peer opens
MaxCmds == 1        \* commands typed before "q"
MaxFileEdits == 1   \* times the file on disk is changed from outside
MaxCalls == 2       \* lock harness: calls of the locking functions

\* the sizes of a partial TCP segment or a partial send(); a write of all
\* that is left is always possible
SegmentSizes == {1, 5}

(***************************************************************************)
(* Program constants.                                                      *)
(***************************************************************************)
BUFFER_SIZE == 8192
INVALID_SOCKET == -1
INT_MAX == 2147483647

(***************************************************************************)
(* Characters and strings.                                                 *)
(***************************************************************************)
NL == "\n"
Digits == {"0", "1", "2", "3", "4", "5", "6", "7", "8", "9"}
Whitespace == {" ", "\n", "\r", "\t"}

DigitVal(c) ==
    CASE c = "0" -> 0 [] c = "1" -> 1 [] c = "2" -> 2 [] c = "3" -> 3
      [] c = "4" -> 4 [] c = "5" -> 5 [] c = "6" -> 6 [] c = "7" -> 7
      [] c = "8" -> 8 [] c = "9" -> 9

DigitChar(d) == <<"0", "1", "2", "3", "4", "5", "6", "7", "8", "9">>[d + 1]

\* The characters the model's strings are written in, in ASCII order:
\* std::map<std::string, ...> iterates its keys in this order.
AsciiOrder ==
    <<"\t", "\n", "\r", " ", "+", ".",
      "0", "1", "2", "3", "4", "5", "6", "7", "8", "9", "=",
      "A", "B", "C", "E", "F", "G", "H", "I", "N", "O", "P", "R", "S", "T",
      "V", "W", "Y", "[", "]", "_", "a", "x", "y">>

Ascii(c) == CHOOSE i \in 1..Len(AsciiOrder) : AsciiOrder[i] = c

Min(a, b) == IF a < b THEN a ELSE b

\* std::string::substr(pos) with a 1-based first position
SubstrFrom(s, from) == SubSeq(s, from, Len(s))

\* std::string::find(c, pos): first position >= from holding c, 0 for npos
Find(s, c, from) ==
    IF from = 0 \/ \A i \in from..Len(s) : s[i] # c
    THEN 0
    ELSE CHOOSE i \in from..Len(s) :
             s[i] = c /\ \A j \in from..(i - 1) : s[j] # c

\* operator< of std::string
StrLess(a, b) ==
    \E i \in 1..(Min(Len(a), Len(b)) + 1) :
        /\ \A j \in 1..(i - 1) : a[j] = b[j]
        /\ \/ i = Len(a) + 1 /\ i <= Len(b)
           \/ i <= Len(a) /\ i <= Len(b) /\ Ascii(a[i]) < Ascii(b[i])

\* the keys of a std::map in iteration order
RECURSIVE Sorted(_)
Sorted(S) ==
    IF S = {} THEN <<>>
    ELSE LET m == CHOOSE x \in S : \A y \in S \ {x} : StrLess(x, y)
         IN  <<m>> \o Sorted(S \ {m})

\* operator<< of an unsigned integer: its decimal digits
RECURSIVE ToDecimal(_)
ToDecimal(n) ==
    IF n < 10 THEN <<DigitChar(n)>>
    ELSE ToDecimal(n \div 10) \o <<DigitChar(n % 10)>>

\* std::string(const char*): the bytes before the first NUL.  No message of
\* the model carries a NUL byte, so the C string is the whole buffer.
CStr(buf) == buf

(***************************************************************************)
(* Number parsing: std::stoull and std::stoi (strtoull / strtol, base 10). *)
(* Leading whitespace is skipped, an optional "+" is accepted, then the    *)
(* longest run of digits is converted; what follows the digits is ignored. *)
(* No digits: std::invalid_argument.  The model's strings carry no "-".    *)
(***************************************************************************)
RECURSIVE SkipSpace(_)
SkipSpace(s) ==
    IF s # <<>> /\ Head(s) \in Whitespace THEN SkipSpace(Tail(s)) ELSE s

SkipSign(s) == IF s # <<>> /\ Head(s) = "+" THEN Tail(s) ELSE s

RECURSIVE DigitRun(_)
DigitRun(s) ==
    IF s # <<>> /\ Head(s) \in Digits THEN <<Head(s)>> \o DigitRun(Tail(s))
    ELSE <<>>

\* the value of a run of digits, saturated just above INT_MAX
RECURSIVE DigitsValue(_, _)
DigitsValue(ds, acc) ==
    IF ds = <<>> THEN acc
    ELSE IF acc > INT_MAX \div 10 THEN INT_MAX
    ELSE DigitsValue(Tail(ds), acc * 10 + DigitVal(Head(ds)))

Stoull(s) ==
    LET ds == DigitRun(SkipSign(SkipSpace(s)))
    IN  IF ds = <<>> THEN [ok |-> FALSE, val |-> 0]
        ELSE [ok |-> TRUE, val |-> DigitsValue(ds, 0)]

Stoi(s) ==
    LET ds == DigitRun(SkipSign(SkipSpace(s)))
    IN  IF ds = <<>> \/ DigitsValue(ds, 0) >= INT_MAX
        THEN [ok |-> FALSE, val |-> 0]
        ELSE [ok |-> TRUE, val |-> DigitsValue(ds, 0)]

(***************************************************************************)
(* g_config_data: section -> key -> value, both maps partial.              *)
(***************************************************************************)
EmptyMap == [x \in {} |-> <<>>]

Keys(store, section) ==
    IF section \in DOMAIN store THEN DOMAIN store[section] ELSE {}

\* get_config_value, inside its critical section
GetValue(store, section, key, default_value) ==
    IF section \in DOMAIN store /\ key \in DOMAIN store[section]
    THEN store[section][key]
    ELSE default_value

\* mutant: set_config_value leaves the store as it is
SetValueDropped(store, section, key, value) == store

\* g_config_data[section][key] = value
SetValue(store, section, key, value) ==
    [s \in DOMAIN store \cup {section} |->
        IF s = section
        THEN [k \in Keys(store, section) \cup {key} |->
                 IF k = key THEN value ELSE store[section][k]]
        ELSE store[s]]

RECURSIVE Concat(_)
Concat(seqs) == IF seqs = <<>> THEN <<>> ELSE Head(seqs) \o Concat(Tail(seqs))

\* one "[section]key=value\n" line
RecordLine(section, key, value) ==
    <<"[">> \o section \o <<"]">> \o key \o <<"=">> \o value \o <<NL>>

SectionBody(store, section) ==
    LET ks == Sorted(DOMAIN store[section])
    IN  Concat([i \in 1..Len(ks) |-> RecordLine(section, ks[i], store[section][ks[i]])])

\* the content stream of serialize_config
ContentOf(store) ==
    LET ss == Sorted(DOMAIN store)
    IN  Concat([i \in 1..Len(ss) |-> SectionBody(store, ss[i])])

\* serialize_config: "<length>\n<content>"
SerializeConfig(store) ==
    ToDecimal(Len(ContentOf(store))) \o <<NL>> \o ContentOf(store)

\* std::getline on the rest of a stringstream: fails at end of stream,
\* otherwise extracts up to (and drops) the next newline
GetLine(ss) ==
    LET nl == Find(ss, NL, 1)
    IN  IF ss = <<>> THEN [ok |-> FALSE, line |-> <<>>, rest |-> <<>>]
        ELSE IF nl = 0 THEN [ok |-> TRUE, line |-> ss, rest |-> <<>>]
        ELSE [ok |-> TRUE, line |-> SubSeq(ss, 1, nl - 1),
              rest |-> SubstrFrom(ss, nl + 1)]

\* value.erase(value.find_last_not_of(" \n\r\t") + 1)
RECURSIVE TrimRight(_)
TrimRight(v) ==
    IF v # <<>> /\ v[Len(v)] \in Whitespace
    THEN TrimRight(SubSeq(v, 1, Len(v) - 1))
    ELSE v

\* the record a line of update_config_from_string decodes to, if any
ParseLine(line) ==
    LET section_end == Find(line, "]", 1)
        equals_pos == IF section_end = 0 THEN 0 ELSE Find(line, "=", section_end)
    IN  IF line = <<>> \/ line[1] # "[" \/ section_end = 0 \/ equals_pos = 0
        THEN [rec |-> FALSE, section |-> <<>>, key |-> <<>>, value |-> <<>>]
        ELSE [rec |-> TRUE,
              section |-> SubSeq(line, 2, section_end - 1),
              key |-> SubSeq(line, section_end + 1, equals_pos - 1),
              value |-> TrimRight(SubstrFrom(line, equals_pos + 1))]

(***************************************************************************)
(* The configuration file and the inih loader.  ini_parse returns -1 when  *)
(* the file cannot be opened (the handler is never called), 0 when every   *)
(* line parsed, and the number of the first bad line otherwise (the        *)
(* handler has been called for the good lines).                            *)
(***************************************************************************)
IniParseReturn(f) == IF ~f.open THEN -1 ELSE f.err

\* the handler calls of one ini_parse run, applied to the cleared map
IniParseData(f) == IF ~f.open THEN EmptyMap ELSE f.data

\* load_config's test of ini_parse's return value
LoadFailed(ret) == ret < 0

(***************************************************************************)
(* Strings of the program and of the inputs.                               *)
(***************************************************************************)
CONFIG_SYNC == <<"C", "O", "N", "F", "I", "G", "_", "S", "Y", "N", "C">>
WPF_HOST == <<"W", "P", "F", "_", "H", "O", "S", "T">>
WPF_RECV_PORT == <<"W", "P", "F", "_", "R", "E", "C", "V", "_", "P", "O", "R", "T">>
CPP_RECV_PORT == <<"C", "P", "P", "_", "R", "E", "C", "V", "_", "P", "O", "R", "T">>
DefaultHost == <<"1", "2", "7", ".", "0", ".", "0", ".", "1">>
DefaultSendPort == <<"1", "2", "3", "4", "7">>
DefaultRecvPort == <<"1", "2", "3", "4", "8">>

\* inet_aton: one to four dot-separated decimal numbers (the model's hosts
\* use no octal or hexadecimal parts)
RECURSIVE DotParts(_)
DotParts(s) ==
    LET d == Find(s, ".", 1)
    IN  IF d = 0 THEN <<s>>
        ELSE <<SubSeq(s, 1, d - 1)>> \o DotParts(SubstrFrom(s, d + 1))

InetAton(host) ==
    LET ps == DotParts(host)
    IN  /\ Len(ps) <= 4
        /\ \A i \in 1..Len(ps) :
              /\ ps[i] # <<>>
              /\ \A j \in 1..Len(ps[i]) : ps[i][j] \in Digits
              /\ (i < Len(ps) => DigitsValue(ps[i], 0) <= 255)

SecA == <<"A">>
KeyX == <<"x">>
KeyY == <<"y">>

StoreA(v) == [s \in {SecA} |-> [k \in {KeyX} |-> v]]

\* what the file on disk can hold: missing, or parsed by inih into a map
FileMissing == [open |-> FALSE, err |-> 0, data |-> EmptyMap]
FileOf(m) == [open |-> TRUE, err |-> 0, data |-> m]
FileChoices ==
    { FileMissing,
      FileOf(StoreA(<<"1">>)),
      [open |-> TRUE, err |-> 2, data |-> StoreA(<<"2">>)] }

\* what the peer sends on one inbound connection
MsgFramed == <<"7", NL>> \o RecordLine(SecA, KeyX, <<"1">>)
MsgLegacyNL == RecordLine(SecA, KeyX, <<"1">>)
MsgLegacy == <<"[", "A", "]", "x", "=", "2">>
MsgShort == <<"9", NL>> \o RecordLine(SecA, KeyX, <<"2">>)
MsgEmptyValue == <<"6", NL>> \o RecordLine(SecA, KeyX, <<>>)
MsgTwice == <<"1", "4", NL>> \o RecordLine(SecA, KeyX, <<"1">>)
                \o RecordLine(SecA, KeyX, <<"2">>)
MsgExcess == <<"7", NL>> \o RecordLine(SecA, KeyX, <<"1">>)
                \o RecordLine(SecA, KeyY, <<"2">>)
Messages ==
    { MsgFramed, MsgLegacyNL, MsgLegacy, MsgShort, MsgEmptyValue, MsgTwice,
      MsgExcess }

(***************************************************************************)
(* State.                                                                  *)
(***************************************************************************)
VARIABLES
    g_config_data,      \* the store
    g_shutdown_flag,
    file,               \* the configuration file on disk
    file_edits,         \* outside changes of the file so far
    listen_socket,      \* the member: INVALID_SOCKET or the descriptor
    lsock,              \* the descriptor in the kernel: none, open, listening, closed
    lsock_closers,      \* the threads that called CLOSE_SOCKET on the descriptor
    joinable,           \* receiver_thread.joinable()
    m_pc,               \* foreground thread: position
    in_dtor,            \* shutdown() is running from ~ConfigSynchronizer
    cmds,               \* commands read so far
    exit_code,          \* main's return value, -1 while running
    m_fd,               \* shutdown: the value of listen_socket it tested
    s_host, s_port, s_sock, s_closes, config_str, total_sent, s_result,
                        \* send_config_to_wpf: locals, socket, result
    r_pc,               \* receiver thread: position
    r_fd,               \* the value of listen_socket the receiver last wrote
    conn,               \* inbound connection: none, pending, accepted
    header, received_data, expected_length,
                        \* handle_client_connection: locals
    ss, cur, config_changed,
                        \* update_config_from_string: rest of the stream,
                        \* record being applied, config_changed
    conns,              \* connections opened so far
    peer_msg, peer_sent, peer_state, wire,
                        \* the peer of the inbound connection
    upd_data,           \* data handed to update_config_from_string on this connection
    conn_sets,          \* set_config_value calls on this connection
    conn_saved,         \* save_config was called on this connection
    accepts_after_flag, \* connections accepted since the flag was set
    failed_before,      \* an earlier connection ended in a receive or decode failure
    pass,               \* merge harness: application of the data under way, 0 in the program
    base_store,         \* merge harness: the store when that application began
    lww,                \* last-write harness: the two records being merged
    g_config_mutex,     \* lock harness: the thread that owns the mutex, or "free"
    t_pc,               \* lock harness: each thread's position in a locking function
    t_op,               \* lock harness: the call each thread is making
    t_ret,              \* lock harness: what each thread's last call returned
    serial_store,       \* lock harness: the store after the calls so far, run one
                        \* after another in the order the mutex was acquired
    serial_ret,         \* lock harness: what each thread's call returns in that order
    calls               \* lock harness: calls made so far

globalVars == <<g_config_data, g_shutdown_flag, file, file_edits>>
sockVars == <<listen_socket, lsock, lsock_closers>>
mainVars == <<m_pc, in_dtor, cmds, exit_code, m_fd, joinable>>
sendVars == <<s_host, s_port, s_sock, s_closes, config_str, total_sent, s_result>>
handlerVars == <<header, received_data, expected_length, ss, cur, config_changed>>
peerVars == <<conns, peer_msg, peer_sent, peer_state, wire>>
ghostVars == <<upd_data, conn_sets, conn_saved, accepts_after_flag, failed_before>>
lockVars == <<g_config_mutex, t_pc, t_op, t_ret, serial_store, serial_ret, calls>>
harnessVars == <<pass, base_store, lww, lockVars>>
vars == <<globalVars, sockVars, mainVars, sendVars, r_pc, r_fd, conn,
          handlerVars, peerVars, ghostVars, harnessVars>>

LISTEN_FD == 3
NoRecord == [section |-> <<>>, key |-> <<>>, value |-> <<>>]

\* the two threads of the process
Threads == {"main", "recv"}
NoCall == [fn |-> "none", section |-> <<>>, key |-> <<>>, value |-> <<>>]
NoReturn == [kind |-> "none", val |-> <<>>]
NoPair == [section |-> <<>>, key |-> <<>>, v1 |-> <<>>, v2 |-> <<>>,
           same_message |-> FALSE]

\* what every specification starts with: no shutdown, no command read, no
\* send under way, no record being applied
InitCommon ==
    /\ g_shutdown_flag = FALSE
    /\ file_edits = 0
    /\ lsock_closers = <<>>
    /\ in_dtor = FALSE
    /\ cmds = 0
    /\ exit_code = -1
    /\ m_fd = INVALID_SOCKET
    /\ s_host = <<>> /\ s_port = 0 /\ s_sock = "none" /\ s_closes = 0
    /\ config_str = <<>> /\ total_sent = 0 /\ s_result = "none"
    /\ cur = NoRecord /\ config_changed = FALSE
    /\ conn_sets = 0 /\ conn_saved = FALSE
    /\ accepts_after_flag = 0
    /\ failed_before = FALSE
    /\ g_config_mutex = "free"
    /\ t_pc = [t \in Threads |-> "idle"]
    /\ t_op = [t \in Threads |-> NoCall]
    /\ t_ret = [t \in Threads |-> NoReturn]
    /\ serial_ret = [t \in Threads |-> NoReturn]
    /\ calls = 0

\* the state after the constructor, before main calls load_config
Init ==
    /\ InitCommon
    /\ g_config_data = EmptyMap
    /\ file \in FileChoices
    /\ listen_socket = INVALID_SOCKET
    /\ lsock = "none"
    /\ joinable = FALSE
    /\ m_pc = "main_load"
    /\ r_pc = "idle"
    /\ r_fd = INVALID_SOCKET
    /\ conn = "none"
    /\ conns = 0
    /\ header = <<>> /\ received_data = <<>> /\ expected_length = -1
    /\ ss = <<>>
    /\ peer_msg = <<>> /\ peer_sent = 0 /\ peer_state = "none" /\ wire = <<>>
    /\ upd_data = <<>>
    /\ pass = 0
    /\ base_store = EmptyMap
    /\ lww = NoPair
    /\ serial_store = EmptyMap

(***************************************************************************)
(* Closing the listening descriptor.  A CLOSE_SOCKET of INVALID_SOCKET     *)
(* fails and changes nothing.  Connections still queued on the listening   *)
(* socket are dropped with it.                                             *)
(***************************************************************************)
DropQueued ==
    IF conn = "pending"
    THEN /\ conn' = "none"
         /\ peer_msg' = <<>> /\ peer_sent' = 0
         /\ peer_state' = "none" /\ wire' = <<>>
         /\ UNCHANGED conns
    ELSE UNCHANGED <<conn, peerVars>>

CloseListen(fd, thread) ==
    IF fd = INVALID_SOCKET
    THEN UNCHANGED <<lsock, lsock_closers, conn, peerVars>>
    ELSE /\ lsock' = "closed"
         /\ lsock_closers' = Append(lsock_closers, thread)
         /\ DropQueued

(***************************************************************************)
(* Foreground thread: main.                                                *)
(***************************************************************************)
\* load_config: one critical section; the map is cleared, then populated
LoadConfigStore(store, f) == IniParseData(f)

\* mutant: main does not test what load_config returns
LoadConfigOkAlways(f) == TRUE

\* what load_config returns
LoadConfigOk(f) == ~LoadFailed(IniParseReturn(f))

\* main: if (!sync.load_config()) return 1;
MainLoad ==
    /\ m_pc = "main_load"
    /\ g_config_data' = LoadConfigStore(g_config_data, file)
    /\ IF LoadConfigOk(file)
       THEN /\ m_pc' = "main_start"
            /\ UNCHANGED <<exit_code, in_dtor>>
       ELSE /\ exit_code' = 1
            /\ in_dtor' = TRUE
            /\ m_pc' = "sd_flag"
    /\ UNCHANGED <<g_shutdown_flag, file, file_edits, sockVars, cmds, m_fd,
                   joinable, sendVars, r_pc, r_fd, conn, handlerVars, peerVars,
                   ghostVars>>
    /\ UNCHANGED harnessVars

\* start_config_receiver, then (after the sleep) the first send
MainStart ==
    /\ m_pc = "main_start"
    /\ r_pc' = "r_port"
    /\ joinable' = TRUE
    /\ m_pc' = "send_host"
    /\ UNCHANGED <<globalVars, sockVars, in_dtor, cmds, exit_code, m_fd,
                   sendVars, r_fd, conn, handlerVars, peerVars, ghostVars>>
    /\ UNCHANGED harnessVars

\* send_config_to_wpf returns: every call site goes on to the command loop
SendReturn(result) ==
    /\ s_result' = result
    /\ s_host' = <<>>
    /\ s_port' = 0
    /\ m_pc' = "send_ret"

SendHost ==
    /\ m_pc = "send_host"
    /\ s_host' = GetValue(g_config_data, CONFIG_SYNC, WPF_HOST, DefaultHost)
    /\ s_sock' = "none" /\ s_closes' = 0 /\ s_result' = "none"
    /\ config_str' = <<>> /\ total_sent' = 0
    /\ m_pc' = "send_port"
    /\ UNCHANGED <<globalVars, sockVars, in_dtor, cmds, exit_code, m_fd,
                   joinable, s_port, r_pc, r_fd, conn, handlerVars, peerVars,
                   ghostVars>>
    /\ UNCHANGED harnessVars

SendPort ==
    /\ m_pc = "send_port"
    /\ LET p == Stoi(GetValue(g_config_data, CONFIG_SYNC, WPF_RECV_PORT,
                              DefaultSendPort))
       IN  IF p.ok
           THEN /\ s_port' = p.val
                /\ m_pc' = "send_socket"
                /\ UNCHANGED <<s_host, s_result>>
           ELSE SendReturn("false")
    /\ UNCHANGED <<globalVars, sockVars, in_dtor, cmds, exit_code, m_fd,
                   joinable, s_sock, s_closes, config_str, total_sent, r_pc,
                   r_fd, conn, handlerVars, peerVars, ghostVars>>
    /\ UNCHANGED harnessVars

\* socket(), then inet_aton on the host
SendSocket ==
    /\ m_pc = "send_socket"
    /\ \/ /\ SendReturn("false")          \* socket() failed
          /\ UNCHANGED <<s_sock, s_closes>>
       \/ IF InetAton(s_host)
          THEN /\ s_sock' = "open"
               /\ m_pc' = "send_connect"
               /\ UNCHANGED <<s_host, s_port, s_closes, s_result>>
          ELSE /\ s_sock' = "closed"
               /\ s_closes' = s_closes + 1
               /\ SendReturn("false")
    /\ UNCHANGED <<globalVars, sockVars, in_dtor, cmds, exit_code, m_fd,
                   joinable, config_str, total_sent, r_pc, r_fd, conn,
                   handlerVars, peerVars, ghostVars>>
    /\ UNCHANGED harnessVars

SendConnect ==
    /\ m_pc = "send_connect"
    /\ \/ /\ m_pc' = "send_serialize"
          /\ UNCHANGED <<s_host, s_port, s_sock, s_closes, s_result>>
       \/ /\ s_sock' = "closed"           \* connect failed
          /\ s_closes' = s_closes + 1
          /\ SendReturn("false")
    /\ UNCHANGED <<globalVars, sockVars, in_dtor, cmds, exit_code, m_fd,
                   joinable, config_str, total_sent, r_pc, r_fd, conn,
                   handlerVars, peerVars, ghostVars>>
    /\ UNCHANGED harnessVars

SendSerialize ==
    /\ m_pc = "send_serialize"
    /\ config_str' = SerializeConfig(g_config_data)
    /\ total_sent' = 0
    /\ m_pc' = "send_loop"
    /\ UNCHANGED <<globalVars, sockVars, in_dtor, cmds, exit_code, m_fd,
                   joinable, s_host, s_port, s_sock, s_closes, s_result, r_pc,
                   r_fd, conn, handlerVars, peerVars, ghostVars>>
    /\ UNCHANGED harnessVars

\* mutant: the send loop stops after its first send
SendLoopOnce(sent, length) == sent = 0

\* while (total_sent < config_str.length())
SendLoopTest(sent, length) == sent < length

\* one test of the send loop's condition and, inside the loop, one send().
\* A send writes the rest of the frame or, once per call, a part of it.
SendLoop ==
    /\ m_pc = "send_loop"
    /\ IF SendLoopTest(total_sent, Len(config_str))
       THEN \/ /\ s_sock' = "closed"      \* send failed
               /\ s_closes' = s_closes + 1
               /\ SendReturn("false")
               /\ UNCHANGED total_sent
            \/ /\ \E bytes_sent \in 1..(Len(config_str) - total_sent) :
                     /\ \/ bytes_sent = Len(config_str) - total_sent
                        \/ total_sent = 0 /\ bytes_sent \in SegmentSizes
                     /\ total_sent' = total_sent + bytes_sent
               /\ UNCHANGED <<m_pc, s_host, s_port, s_sock, s_closes, s_result>>
       ELSE /\ s_sock' = "closed"
            /\ s_closes' = s_closes + 1
            /\ SendReturn("true")
            /\ UNCHANGED total_sent
    /\ UNCHANGED <<globalVars, sockVars, in_dtor, cmds, exit_code, m_fd,
                   joinable, config_str, r_pc, r_fd, conn, handlerVars,
                   peerVars, ghostVars>>
    /\ UNCHANGED harnessVars

\* back in main after send_config_to_wpf: its locals are gone
SendDone ==
    /\ m_pc = "send_ret"
    /\ s_sock' = "none" /\ s_closes' = 0 /\ s_result' = "none"
    /\ config_str' = <<>> /\ total_sent' = 0
    /\ m_pc' = "main_cmd"
    /\ UNCHANGED <<globalVars, sockVars, in_dtor, cmds, exit_code, m_fd,
                   joinable, s_host, s_port, r_pc, r_fd, conn, handlerVars,
                   peerVars, ghostVars>>
    /\ UNCHANGED harnessVars

\* the command loop reads "q"
CmdQuit ==
    /\ m_pc = "main_cmd"
    /\ m_pc' = "sd_flag"
    /\ UNCHANGED <<globalVars, sockVars, in_dtor, cmds, exit_code, m_fd,
                   joinable, sendVars, r_pc, r_fd, conn, handlerVars, peerVars,
                   ghostVars>>
    /\ UNCHANGED harnessVars

\* the command loop reads "s" or an empty line
CmdSend ==
    /\ m_pc = "main_cmd"
    /\ cmds < MaxCmds
    /\ cmds' = cmds + 1
    /\ m_pc' = "send_host"
    /\ UNCHANGED <<globalVars, sockVars, in_dtor, exit_code, m_fd, joinable,
                   sendVars, r_pc, r_fd, conn, handlerVars, peerVars, ghostVars>>
    /\ UNCHANGED harnessVars

\* the command loop reads "r": load_config, result ignored, then send
CmdReload ==
    /\ m_pc = "main_cmd"
    /\ cmds < MaxCmds
    /\ cmds' = cmds + 1
    /\ m_pc' = "main_reload"
    /\ UNCHANGED <<globalVars, sockVars, in_dtor, exit_code, m_fd, joinable,
                   sendVars, r_pc, r_fd, conn, handlerVars, peerVars, ghostVars>>
    /\ UNCHANGED harnessVars

MainReload ==
    /\ m_pc = "main_reload"
    /\ g_config_data' = LoadConfigStore(g_config_data, file)
    /\ m_pc' = "send_host"
    /\ UNCHANGED <<g_shutdown_flag, file, file_edits, sockVars, in_dtor, cmds,
                   exit_code, m_fd, joinable, sendVars, r_pc, r_fd, conn,
                   handlerVars, peerVars, ghostVars>>
    /\ UNCHANGED harnessVars

\* shutdown(): g_shutdown_flag = true
SdFlag ==
    /\ m_pc = "sd_flag"
    /\ g_shutdown_flag' = TRUE
    /\ m_pc' = "sd_check"
    /\ UNCHANGED <<g_config_data, file, file_edits, sockVars, in_dtor, cmds,
                   exit_code, m_fd, joinable, sendVars, r_pc, r_fd, conn,
                   handlerVars, peerVars, ghostVars>>
    /\ UNCHANGED harnessVars

\* shutdown(): if (listen_socket != INVALID_SOCKET)
SdCheck ==
    /\ m_pc = "sd_check"
    /\ m_fd' = listen_socket
    /\ m_pc' = IF listen_socket # INVALID_SOCKET THEN "sd_close" ELSE "sd_join"
    /\ UNCHANGED <<globalVars, sockVars, in_dtor, cmds, exit_code, joinable,
                   sendVars, r_pc, r_fd, conn, handlerVars, peerVars, ghostVars>>
    /\ UNCHANGED harnessVars

\* shutdown(): CLOSE_SOCKET(listen_socket).  The member is read without
\* synchronisation: the call gets the value just tested or the one in memory.
SdClose ==
    /\ m_pc = "sd_close"
    /\ \E fd \in {m_fd, listen_socket} : CloseListen(fd, "main")
    /\ m_pc' = "sd_inval"
    /\ UNCHANGED <<globalVars, listen_socket, in_dtor, cmds, exit_code, m_fd,
                   joinable, sendVars, r_pc, r_fd, handlerVars, ghostVars>>
    /\ UNCHANGED harnessVars

\* shutdown(): listen_socket = INVALID_SOCKET
SdInval ==
    /\ m_pc = "sd_inval"
    /\ listen_socket' = INVALID_SOCKET
    /\ m_fd' = INVALID_SOCKET
    /\ m_pc' = "sd_join"
    /\ UNCHANGED <<globalVars, lsock, lsock_closers, in_dtor, cmds, exit_code,
                   joinable, sendVars, r_pc, r_fd, conn, handlerVars, peerVars,
                   ghostVars>>
    /\ UNCHANGED harnessVars

\* shutdown(): if (receiver_thread.joinable()) receiver_thread.join();
\* then shutdown returns, to main or to the destructor
\* mutant: shutdown() does not wait for the receiver thread
JoinReturnsAtOnce(is_joinable, receiver_pc) == TRUE

\* receiver_thread.join() returns once the thread function has returned
JoinReturns(is_joinable, receiver_pc) == is_joinable => receiver_pc = "done"

SdJoin ==
    /\ m_pc = "sd_join"
    /\ JoinReturns(joinable, r_pc)
    /\ joinable' = FALSE
    /\ m_pc' = IF in_dtor THEN "exited" ELSE "main_ret"
    /\ UNCHANGED <<globalVars, sockVars, in_dtor, cmds, exit_code, m_fd,
                   sendVars, r_pc, r_fd, conn, handlerVars, peerVars, ghostVars>>
    /\ UNCHANGED harnessVars

\* main: return 0; the destructor calls shutdown() again
MainReturn ==
    /\ m_pc = "main_ret"
    /\ exit_code' = 0
    /\ in_dtor' = TRUE
    /\ m_pc' = "sd_flag"
    /\ UNCHANGED <<globalVars, sockVars, cmds, m_fd, joinable, sendVars, r_pc,
                   r_fd, conn, handlerVars, peerVars, ghostVars>>
    /\ UNCHANGED harnessVars

(***************************************************************************)
(* Receiver thread: receive_config_updates.                                *)
(***************************************************************************)
ResetHandler ==
    /\ header' = <<>> /\ received_data' = <<>> /\ expected_length' = -1
    /\ ss' = <<>> /\ cur' = NoRecord /\ config_changed' = FALSE

\* port = std::stoi(get_config_value("CONFIG_SYNC", "CPP_RECV_PORT", "12348"))
RecvPort ==
    /\ r_pc = "r_port"
    /\ r_pc' = IF Stoi(GetValue(g_config_data, CONFIG_SYNC, CPP_RECV_PORT,
                                DefaultRecvPort)).ok
               THEN "r_socket" ELSE "done"
    /\ UNCHANGED <<globalVars, sockVars, mainVars, sendVars, r_fd, conn,
                   handlerVars, peerVars, ghostVars>>
    /\ UNCHANGED harnessVars

\* listen_socket = socket(...)
RecvSocket ==
    /\ r_pc = "r_socket"
    /\ \/ /\ listen_socket' = LISTEN_FD
          /\ r_fd' = LISTEN_FD
          /\ lsock' = "open"
          /\ r_pc' = "r_bind"
       \/ /\ listen_socket' = INVALID_SOCKET
          /\ r_fd' = INVALID_SOCKET
          /\ r_pc' = "done"
          /\ UNCHANGED lsock
    /\ UNCHANGED <<globalVars, lsock_closers, mainVars, sendVars, conn,
                   handlerVars, peerVars, ghostVars>>
    /\ UNCHANGED harnessVars

\* bind(): fails on a descriptor that shutdown() has closed, and may fail
\* on an open one (port in use)
RecvBind ==
    /\ r_pc = "r_bind"
    /\ \/ lsock = "open" /\ r_pc' = "r_bind_ok"
       \/ r_pc' = "r_fail"
    /\ UNCHANGED <<globalVars, sockVars, mainVars, sendVars, r_fd, conn,
                   handlerVars, peerVars, ghostVars>>
    /\ UNCHANGED harnessVars

\* listen()
RecvListen ==
    /\ r_pc = "r_bind_ok"
    /\ \/ /\ lsock = "open"
          /\ lsock' = "listening"
          /\ r_pc' = "r_while"
       \/ /\ r_pc' = "r_fail"
          /\ UNCHANGED lsock
    /\ UNCHANGED <<globalVars, listen_socket, lsock_closers, mainVars,
                   sendVars, r_fd, conn, handlerVars, peerVars, ghostVars>>
    /\ UNCHANGED harnessVars

\* after a failed bind or listen: CLOSE_SOCKET(listen_socket).  The member
\* is read without synchronisation: the receiver gets the value in memory or
\* the one it wrote itself.
RecvFailClose ==
    /\ r_pc = "r_fail"
    /\ \E fd \in {listen_socket, r_fd} : CloseListen(fd, "recv")
    /\ r_pc' = "r_inval"
    /\ UNCHANGED <<globalVars, listen_socket, mainVars, sendVars, r_fd,
                   handlerVars, ghostVars>>
    /\ UNCHANGED harnessVars

\* listen_socket = INVALID_SOCKET, and the thread function returns
RecvInval ==
    /\ r_pc = "r_inval"
    /\ listen_socket' = INVALID_SOCKET
    /\ r_fd' = INVALID_SOCKET
    /\ r_pc' = "done"
    /\ UNCHANGED <<globalVars, lsock, lsock_closers, mainVars, sendVars, conn,
                   handlerVars, peerVars, ghostVars>>
    /\ UNCHANGED harnessVars

\* mutant: the accept loop does not test the shutdown flag
WhileTestIgnoresFlag(flag) == TRUE

\* while (!g_shutdown_flag)
WhileTest(flag) == ~flag

RecvWhile ==
    /\ r_pc = "r_while"
    /\ r_pc' = IF WhileTest(g_shutdown_flag) THEN "r_select" ELSE "r_exit"
    /\ UNCHANGED <<globalVars, sockVars, mainVars, sendVars, r_fd, conn,
                   handlerVars, peerVars, ghostVars>>
    /\ UNCHANGED harnessVars

\* select() with the one-second timeout: an error on a closed descriptor
\* (break), a queued connection, or the timeout
RecvSelect ==
    /\ r_pc = "r_select"
    /\ r_pc' = IF lsock # "listening" THEN "r_exit"
               ELSE IF conn = "pending" THEN "r_accept"
               ELSE "r_while"
    /\ UNCHANGED <<globalVars, sockVars, mainVars, sendVars, r_fd, conn,
                   handlerVars, peerVars, ghostVars>>
    /\ UNCHANGED harnessVars

\* accept(): INVALID_SOCKET on a closed descriptor (continue), otherwise
\* the queued connection
RecvAccept ==
    /\ r_pc = "r_accept"
    /\ IF lsock = "listening" /\ conn = "pending"
       THEN /\ conn' = "accepted"
            /\ r_pc' = "h_recv"
            /\ accepts_after_flag' =
                  IF g_shutdown_flag THEN accepts_after_flag + 1
                  ELSE accepts_after_flag
       ELSE /\ r_pc' = "r_while"
            /\ UNCHANGED <<conn, accepts_after_flag>>
    /\ UNCHANGED <<globalVars, sockVars, mainVars, sendVars, r_fd,
                   handlerVars, peerVars, upd_data, conn_sets, conn_saved,
                   failed_before>>
    /\ UNCHANGED harnessVars

\* after the loop: if (listen_socket != INVALID_SOCKET) CLOSE_SOCKET(...)
RecvExit ==
    /\ r_pc = "r_exit"
    /\ \E fd \in {listen_socket, r_fd} :
          IF fd # INVALID_SOCKET
          THEN /\ CloseListen(fd, "recv")
               /\ r_pc' = "r_inval"
          ELSE /\ r_pc' = "done"
               /\ UNCHANGED <<lsock, lsock_closers, conn, peerVars>>
    /\ UNCHANGED <<globalVars, listen_socket, mainVars, sendVars, r_fd,
                   handlerVars, ghostVars>>
    /\ UNCHANGED harnessVars

(***************************************************************************)
(* handle_client_connection.                                               *)
(***************************************************************************)
\* recv() returns: data is queued, or the peer has closed (recv then
\* returns 0; an error return of -1 takes the same branches)
RecvReady == wire # <<>> \/ peer_state = "closed"

\* the bytes one recv(len) call delivers; none when it returns 0 or -1
RecvBytes(len) == SubSeq(wire, 1, Min(len, Len(wire)))

\* if (!received_data.empty()) update_config_from_string(received_data)
AfterBody(data) ==
    IF data # <<>>
    THEN /\ upd_data' = data
         /\ ss' = data
         /\ config_changed' = FALSE
         /\ r_pc' = "u_getline"
    ELSE /\ r_pc' = "r_close"
         /\ UNCHANGED <<upd_data, ss, config_changed>>

\* what the first buffer decodes to: kind "legacy" (no newline), "error"
\* (stoull threw) or "framed" with the length and the start of the body
ParseHeader(hdr) ==
    LET newline_pos == Find(hdr, NL, 1)
        len == Stoull(SubSeq(hdr, 1, newline_pos - 1))
    IN  IF newline_pos = 0
        THEN [kind |-> "legacy", expected |-> -1, data |-> hdr]
        ELSE IF ~len.ok
        THEN [kind |-> "error", expected |-> -1, data |-> <<>>]
        ELSE [kind |-> "framed", expected |-> len.val,
              data |-> SubstrFrom(hdr, newline_pos + 1)]

\* mutant: the exception of std::stoull ends the accept loop
CatchEndsLoop == "r_exit"

\* catch (const std::exception&) { ...; return; }: back in the accept loop,
\* at CLOSE_SOCKET(client_sock)
CatchReturn == "r_close"

\* the first recv and the header
HandleRecv ==
    /\ r_pc = "h_recv"
    /\ RecvReady
    /\ LET buf == RecvBytes(BUFFER_SIZE - 1)
           h == ParseHeader(CStr(buf))
       IN  /\ wire' = SubstrFrom(wire, Len(buf) + 1)
           /\ IF buf = <<>>                      \* bytes_received <= 0
              THEN /\ r_pc' = "r_close"
                   /\ UNCHANGED <<handlerVars, upd_data>>
              ELSE /\ header' = CStr(buf)
                   /\ received_data' = h.data
                   /\ expected_length' = h.expected
                   /\ UNCHANGED cur
                   /\ CASE h.kind = "legacy" -> AfterBody(h.data)
                        [] h.kind = "error" ->
                             /\ r_pc' = CatchReturn
                             /\ UNCHANGED <<upd_data, ss, config_changed>>
                        [] h.kind = "framed" ->
                             /\ r_pc' = "h_more"
                             /\ UNCHANGED <<upd_data, ss, config_changed>>
    /\ UNCHANGED <<globalVars, sockVars, mainVars, sendVars, r_fd, conn,
                   conns, peer_msg, peer_sent, peer_state,
                   conn_sets, conn_saved, accepts_after_flag, failed_before>>
    /\ UNCHANGED harnessVars

\* the number of bytes one recv of the body loop asks for
MoreLen(expected, have) == Min(BUFFER_SIZE - 1, expected - have)

\* while (received_data.length() < expected_length): one test of the
\* condition and, inside the loop, one recv
HandleMore ==
    /\ r_pc = "h_more"
    /\ IF Len(received_data) < expected_length
       THEN /\ RecvReady
            /\ LET buf == RecvBytes(MoreLen(expected_length, Len(received_data)))
               IN  /\ wire' = SubstrFrom(wire, Len(buf) + 1)
                   /\ IF buf = <<>>              \* remaining_bytes <= 0: break
                      THEN /\ AfterBody(received_data)
                           /\ UNCHANGED received_data
                      ELSE /\ received_data' = received_data \o CStr(buf)
                           /\ UNCHANGED <<r_pc, upd_data, ss, config_changed>>
       ELSE /\ AfterBody(received_data)
            /\ UNCHANGED <<received_data, wire>>
    /\ UNCHANGED <<globalVars, sockVars, mainVars, sendVars, r_fd, conn,
                   header, expected_length, cur, conns, peer_msg, peer_sent,
                   peer_state, conn_sets, conn_saved,
                   accepts_after_flag, failed_before>>
    /\ UNCHANGED harnessVars

(***************************************************************************)
(* update_config_from_string.                                              *)
(***************************************************************************)
\* mutant: every record is set, equal to the current value or not
NeedsSetAlways(store, rec) == TRUE

\* if (current_value != value), with current_value = get_config_value(section, key)
NeedsSet(store, rec) ==
    GetValue(store, rec.section, rec.key, <<>>) # rec.value

\* mutant: the file is rewritten after every message
NeedsSaveAlways(changed) == TRUE

\* if (config_changed) save_config()
NeedsSave(changed) == changed

\* one std::getline; for a record line also the get_config_value and the
\* comparison.  At the end of the stream: if (config_changed) save_config()
UpdGetLine ==
    /\ r_pc = "u_getline"
    /\ LET g == GetLine(ss)
           rec == ParseLine(g.line)
       IN  IF ~g.ok
           THEN /\ r_pc' = IF NeedsSave(config_changed) THEN "u_save" ELSE "r_close"
                /\ UNCHANGED <<ss, cur>>
           ELSE /\ ss' = g.rest
                /\ IF rec.rec /\ NeedsSet(g_config_data, rec)
                   THEN /\ cur' = [section |-> rec.section, key |-> rec.key,
                                   value |-> rec.value]
                        /\ r_pc' = "u_set"
                   ELSE UNCHANGED <<cur, r_pc>>
    /\ UNCHANGED <<globalVars, sockVars, mainVars, sendVars, r_fd, conn,
                   header, received_data, expected_length, config_changed,
                   peerVars, ghostVars>>
    /\ UNCHANGED harnessVars

\* set_config_value(section, key, value); config_changed = true
UpdSet ==
    /\ r_pc = "u_set"
    /\ g_config_data' = SetValue(g_config_data, cur.section, cur.key, cur.value)
    /\ config_changed' = TRUE
    /\ cur' = NoRecord
    /\ conn_sets' = conn_sets + 1
    /\ r_pc' = "u_getline"
    /\ UNCHANGED <<g_shutdown_flag, file, file_edits, sockVars, mainVars,
                   sendVars, r_fd, conn, header, received_data,
                   expected_length, ss, peerVars, upd_data, conn_saved,
                   accepts_after_flag, failed_before>>
    /\ UNCHANGED harnessVars

\* save_config: rewrites the file from the store, unless it cannot be opened
UpdSave ==
    /\ r_pc = "u_save"
    /\ \/ file' = FileOf(g_config_data)
       \/ UNCHANGED file
    /\ conn_saved' = TRUE
    /\ r_pc' = "r_close"
    /\ UNCHANGED <<g_config_data, g_shutdown_flag, file_edits, sockVars,
                   mainVars, sendVars, r_fd, conn, handlerVars, peerVars,
                   upd_data, conn_sets, accepts_after_flag, failed_before>>
    /\ UNCHANGED harnessVars

\* the connection gave no message: the first recv returned 0 or -1, the
\* length header did not parse, or the body stopped short of its length
ConnFailed ==
    \/ header = <<>>
    \/ Find(header, NL, 1) # 0 /\ expected_length < 0
    \/ expected_length >= 0 /\ Len(received_data) < expected_length

\* CLOSE_SOCKET(client_sock), back to the loop test
RecvCloseClient ==
    /\ r_pc = "r_close"
    /\ failed_before' = (failed_before \/ ConnFailed)
    /\ conn' = "none"
    /\ peer_msg' = <<>> /\ peer_sent' = 0
    /\ peer_state' = "none" /\ wire' = <<>>
    /\ ResetHandler
    /\ upd_data' = <<>> /\ conn_sets' = 0 /\ conn_saved' = FALSE
    /\ r_pc' = "r_while"
    /\ UNCHANGED <<globalVars, sockVars, mainVars, sendVars, r_fd, conns,
                   accepts_after_flag>>
    /\ UNCHANGED harnessVars

(***************************************************************************)
(* The peer of the inbound connection, and the file's other writers.       *)
(***************************************************************************)
PeerConnect ==
    /\ conn = "none"
    /\ lsock = "listening"
    /\ conns < MaxConns
    /\ conns' = conns + 1
    /\ conn' = "pending"
    /\ peer_msg' \in Messages
    /\ peer_sent' = 0 /\ peer_state' = "open"
    /\ wire' = <<>>
    /\ UNCHANGED <<globalVars, sockVars, mainVars, sendVars, r_pc, r_fd,
                   handlerVars, ghostVars>>
    /\ UNCHANGED harnessVars

\* The handler has made its last recv on the connection: what the peer
\* does from then on is never read.
PastRecv == r_pc \in {"u_getline", "u_set", "u_save", "r_close"}

\* the peer writes the rest of its message or, first, a part of it
PeerSend ==
    /\ conn \in {"pending", "accepted"}
    /\ ~PastRecv
    /\ peer_state = "open"
    /\ \E n \in 1..(Len(peer_msg) - peer_sent) :
          /\ \/ n = Len(peer_msg) - peer_sent
             \/ peer_sent = 0 /\ n \in SegmentSizes
          /\ wire' = wire \o SubSeq(peer_msg, peer_sent + 1, peer_sent + n)
          /\ peer_sent' = peer_sent + n
    /\ UNCHANGED <<globalVars, sockVars, mainVars, sendVars, r_pc, r_fd, conn,
                   handlerVars, conns, peer_msg, peer_state, ghostVars>>
    /\ UNCHANGED harnessVars

\* the peer closes its end; what it has written stays readable
PeerClose ==
    /\ conn \in {"pending", "accepted"}
    /\ ~PastRecv
    /\ peer_state = "open"
    /\ peer_state' = "closed"
    /\ UNCHANGED <<globalVars, sockVars, mainVars, sendVars, r_pc, r_fd, conn,
                   handlerVars, conns, peer_msg, peer_sent, wire,
                   ghostVars>>
    /\ UNCHANGED harnessVars

\* the file is edited, replaced or removed from outside the process, while
\* main waits for a command that may reload it
EditFile ==
    /\ file_edits < MaxFileEdits
    /\ m_pc = "main_cmd"
    /\ cmds < MaxCmds
    /\ file_edits' = file_edits + 1
    /\ file' \in FileChoices \ {file}
    /\ UNCHANGED <<g_config_data, g_shutdown_flag, sockVars, mainVars,
                   sendVars, r_pc, r_fd, conn, handlerVars, peerVars,
                   ghostVars>>
    /\ UNCHANGED harnessVars

(***************************************************************************)
(* The program.                                                            *)
(***************************************************************************)
MainStep ==
    \/ MainLoad \/ MainStart
    \/ SendHost \/ SendPort \/ SendSocket \/ SendConnect \/ SendSerialize
    \/ SendLoop \/ SendDone
    \/ MainReload
    \/ SdFlag \/ SdCheck \/ SdClose \/ SdInval \/ SdJoin \/ MainReturn

Command == CmdQuit \/ CmdSend \/ CmdReload

ReceiverStep ==
    \/ RecvPort \/ RecvSocket \/ RecvBind \/ RecvListen \/ RecvFailClose
    \/ RecvInval \/ RecvWhile \/ RecvSelect \/ RecvAccept \/ RecvExit
    \/ HandleRecv \/ HandleMore
    \/ UpdGetLine \/ UpdSet \/ UpdSave \/ RecvCloseClient

PeerStep == PeerConnect \/ PeerSend \/ PeerClose

Next == MainStep \/ Command \/ ReceiverStep \/ PeerStep \/ EditFile

Spec == Init /\ [][Next]_vars

(***************************************************************************)
(* Properties of the program (specification Spec).                         *)
(***************************************************************************)
\* the handler is past its receive loop with a length header that declared
\* more body bytes than the connection delivered
Truncated ==
    /\ PastRecv
    /\ expected_length >= 0
    /\ Len(received_data) < expected_length

\* C1: a message whose peer closed before delivering the declared body
\* length is discarded: nothing of it is set in the store and the file is
\* not rewritten.
C1_TruncatedDiscarded == Truncated => conn_sets = 0 /\ ~conn_saved

ValidDecimal(s) == s # <<>> /\ \A i \in 1..Len(s) : s[i] \in Digits

\* the first buffer has a first line that is not a decimal integer
HeaderNotInteger ==
    /\ Find(header, NL, 1) # 0
    /\ ~ValidDecimal(SubSeq(header, 1, Find(header, NL, 1) - 1))

\* C2: when the text before the first newline of the first read is not a
\* decimal integer, the whole buffer is handed to the record parser as the
\* body.
C2_LegacyFallback ==
    (r_pc = "r_close" /\ HeaderNotInteger) => upd_data = header

\* a step in which load_config runs and fails
LoadFails ==
    /\ m_pc \in {"main_load", "main_reload"}
    /\ m_pc' # m_pc
    /\ ~LoadConfigOk(file)

\* C3: a load_config that fails leaves the store as it was.
C3_LoadAllOrNothing == [][LoadFails => g_config_data' = g_config_data]_vars

LoopExited == r_pc \in {"r_exit", "r_inval", "done"}

\* C7: only the receiver closes the listening socket, and only after its
\* accept loop has exited.
C7_ListenSocketOwnership ==
    /\ \A i \in 1..Len(lsock_closers) : lsock_closers[i] = "recv"
    /\ lsock = "closed" => LoopExited

AcceptsConnection == conn = "pending" /\ conn' = "accepted"
CallsSet == r_pc = "u_set" /\ r_pc' # "u_set"
CallsSave == r_pc = "u_save" /\ r_pc' # "u_save"

\* C8 as stated: once the shutdown flag is set the receiver accepts no
\* connection and calls neither set_config_value nor save_config.
C8_NothingAfterFlag ==
    [][g_shutdown_flag => ~(AcceptsConnection \/ CallsSet \/ CallsSave)]_vars

\* C8 as amended: once the shutdown flag is set the receiver accepts at most
\* one more connection (its loop iteration began before the flag was set);
\* a connection being handled runs to completion, and once the loop has
\* exited no connection is open and no record is waiting to be set.
C8_AtMostOneMoreConnection ==
    /\ accepts_after_flag <= 1
    /\ LoopExited => conn # "accepted" /\ cur = NoRecord /\ ~PastRecv

\* a connection accepted after the flag was set is being merged
C8_Witness ==
    /\ g_shutdown_flag
    /\ accepts_after_flag = 1
    /\ conn_sets >= 1

\* the first call of shutdown() has returned
ShutdownReturned ==
    \/ m_pc \in {"main_ret", "exited"}
    \/ in_dtor /\ exit_code = 0

\* C9: after shutdown() has returned the receiver thread has terminated (or
\* was never started), listen_socket is INVALID_SOCKET, the descriptor is
\* closed, no connection is open and the receiver can take no further step.
C9_NoDanglingReceiver ==
    ShutdownReturned =>
        /\ r_pc \in {"idle", "done"}
        /\ listen_socket = INVALID_SOCKET
        /\ lsock \in {"none", "closed"}
        /\ conn = "none"
        /\ ~ENABLED ReceiverStep

\* shutdown() has returned after the receiver accepted and merged a
\* connection while shutdown() was running
C9_Witness ==
    /\ ShutdownReturned
    /\ accepts_after_flag = 1
    /\ lsock = "closed"
    /\ r_pc = "done"

\* C10: once the shutdown flag is set, shutdown proceeds whatever the peer
\* does: until the process has exited, the foreground thread or the
\* receiver thread can take a step without waiting for the peer.
C10_ShutdownProceeds ==
    g_shutdown_flag => m_pc = "exited" \/ ENABLED (MainStep \/ ReceiverStep)

HandlerPcs == {"h_recv", "h_more", "u_getline", "u_set", "u_save"}

\* the receiver leaves its accept loop
ExitsLoop == r_pc # "r_exit" /\ r_pc' = "r_exit"

\* C12: the connection handler always returns to the accept loop, which
\* then closes the client socket and goes back to its loop test; the loop
\* is left only when the shutdown flag is set or the listening socket has
\* failed.
C12_FailureKeepsServing ==
    [][/\ r_pc \in HandlerPcs => r_pc' \in HandlerPcs \cup {"r_close"}
       /\ (r_pc = "r_close" /\ r_pc' # r_pc) => conn' = "none" /\ r_pc' = "r_while"
       /\ ExitsLoop => g_shutdown_flag \/ lsock # "listening"]_vars

\* after a connection that failed, the server is in select again, waiting
\* for the next one, with no shutdown under way
C12_Witness ==
    /\ failed_before
    /\ r_pc = "r_select"
    /\ lsock = "listening"
    /\ conn = "none"
    /\ ~g_shutdown_flag

\* the receiver thread has returned without ever listening: the port was not
\* a number, or socket, bind or listen failed
StartFailed ==
    \/ r_pc \in {"r_fail", "r_inval"} /\ lsock_closers = <<>>
    \/ r_pc = "done" /\ ~g_shutdown_flag
    \/ r_pc = "done" /\ lsock = "none"

\* C13: when the receiver fails to start, main does not go on to the send
\* and the command loop, and the process exits with code 1.
C13_StartFailureExits ==
    StartFailed =>
        /\ m_pc # "main_cmd"
        /\ exit_code \in {-1, 1}

(***************************************************************************)
(* Merge harness (specification SpecMerge): update_config_from_string is   *)
(* applied to a store and a body, and then once more to the same body.     *)
(***************************************************************************)
StoreXY(vx, vy) ==
    [s \in {SecA} |-> [k \in {KeyX, KeyY} |-> IF k = KeyX THEN vx ELSE vy]]

MergeStores == {EmptyMap, StoreA(<<"1">>), StoreA(<<"2">>), StoreXY(<<"1">>, <<>>)}

MergeBodies ==
    { RecordLine(SecA, KeyX, <<"1">>),
      RecordLine(SecA, KeyX, <<"1">>) \o RecordLine(SecA, KeyX, <<"2">>),
      RecordLine(SecA, KeyX, <<"2">>) \o RecordLine(SecA, KeyX, <<"2">>),
      RecordLine(SecA, KeyY, <<>>),
      RecordLine(SecA, KeyY, <<"2", " ">>) \o RecordLine(SecA, KeyX, <<>>),
      <<"x", "=", "1", NL, NL>> \o <<"[", "A", "]", "y", "=", "1">> }

\* main waits in its command loop, the receiver serves one connection
InitServing ==
    /\ InitCommon
    /\ listen_socket = LISTEN_FD
    /\ lsock = "listening"
    /\ joinable = TRUE
    /\ m_pc = "main_cmd"
    /\ r_fd = LISTEN_FD
    /\ conns = 1

\* the receiver has read a whole frame and enters update_config_from_string
InitMerge ==
    /\ InitServing
    /\ g_config_data \in MergeStores
    /\ file = FileOf(g_config_data)
    /\ base_store = g_config_data
    /\ pass = 1
    /\ lww = NoPair
    /\ serial_store = EmptyMap
    /\ upd_data \in MergeBodies
    /\ header = ToDecimal(Len(upd_data)) \o <<NL>> \o upd_data
    /\ expected_length = Len(upd_data)
    /\ received_data = upd_data
    /\ ss = upd_data
    /\ r_pc = "u_getline"
    /\ conn = "accepted"
    /\ peer_msg = header /\ peer_sent = Len(header) /\ peer_state = "open"
    /\ wire = <<>>

\* update_config_from_string is called again with the same data
Reapply ==
    /\ pass = 1
    /\ r_pc = "r_close"
    /\ pass' = 2
    /\ base_store' = g_config_data
    /\ ss' = upd_data
    /\ config_changed' = FALSE
    /\ conn_sets' = 0
    /\ conn_saved' = FALSE
    /\ r_pc' = "u_getline"
    /\ UNCHANGED <<globalVars, sockVars, mainVars, sendVars, r_fd, conn,
                   header, received_data, expected_length, cur, peerVars,
                   upd_data, accepts_after_flag, failed_before, lww, lockVars>>

NextMerge == UpdGetLine \/ UpdSet \/ UpdSave \/ Reapply

SpecMerge == InitMerge /\ [][NextMerge]_vars

\* the records a body decodes to, in order
RECURSIVE Records(_)
Records(data) ==
    LET g == GetLine(data)
        rec == ParseLine(g.line)
    IN  IF ~g.ok THEN <<>>
        ELSE IF rec.rec THEN <<rec>> \o Records(g.rest)
        ELSE Records(g.rest)

SameKey(a, b) == a.section = b.section /\ a.key = b.key

\* no (section, key) is given two different values
NoConflict(recs) ==
    \A i, j \in 1..Len(recs) :
        SameKey(recs[i], recs[j]) => recs[i].value = recs[j].value

Present(store, rec) ==
    /\ rec.section \in DOMAIN store
    /\ rec.key \in DOMAIN store[rec.section]
    /\ store[rec.section][rec.key] = rec.value

\* C4 as stated: a second application of the same data leaves the store as
\* the first left it and reports no change, so the file is not rewritten.
C4_MergeIdempotent ==
    (pass = 2 /\ r_pc = "r_close") =>
        /\ g_config_data = base_store
        /\ ~config_changed
        /\ ~conn_saved

\* C4 as amended: a second application of the same data leaves the store as
\* the first left it; it reports no change and does not rewrite the file
\* when the data gives no (section, key) two different values.
C4_MergeIdempotentNoConflict ==
    (pass = 2 /\ r_pc = "r_close") =>
        /\ g_config_data = base_store
        /\ NoConflict(Records(upd_data)) => ~config_changed /\ ~conn_saved

\* the second application of a body naming one key twice with one value
\* has finished
C4_Witness ==
    /\ pass = 2
    /\ r_pc = "r_close"
    /\ Len(Records(upd_data)) = 2
    /\ NoConflict(Records(upd_data))
    /\ base_store # EmptyMap

\* C5: after a merge, the last record for each (section, key) is present in
\* the store with its value, and the merge reported a change if the pair
\* was absent or held another value before.
C5_MergeApplies ==
    (pass = 1 /\ r_pc = "r_close") =>
        LET recs == Records(upd_data)
        IN  \A i \in 1..Len(recs) :
               (\A j \in (i + 1)..Len(recs) : ~SameKey(recs[i], recs[j])) =>
                   /\ Present(g_config_data, recs[i])
                   /\ ~Present(base_store, recs[i]) => config_changed

(***************************************************************************)
(* Round-trip harness (specification SpecCodec): a store is serialized,    *)
(* the frame travels over a connection, and handle_client_connection       *)
(* decodes it into an empty store.                                         *)
(***************************************************************************)
StoreSync ==
    [s \in {CONFIG_SYNC} |->
        [k \in {WPF_HOST, WPF_RECV_PORT} |->
            IF k = WPF_HOST THEN DefaultHost ELSE DefaultSendPort]]

RoundTripStores ==
    { EmptyMap, StoreA(<<"1">>), StoreA(<<>>), StoreXY(<<"1">>, <<"2">>),
      StoreXY(<<"a", "=", "1">>, <<"2", " ", "1">>), StoreSync }

InitCodec ==
    /\ InitServing
    /\ g_config_data \in RoundTripStores
    /\ file = FileOf(EmptyMap)
    /\ base_store = EmptyMap
    /\ pass = 0
    /\ lww = NoPair
    /\ serial_store = EmptyMap
    /\ upd_data = <<>>
    /\ header = <<>> /\ received_data = <<>> /\ expected_length = -1
    /\ ss = <<>>
    /\ r_pc = "codec"
    /\ conn = "none"
    /\ peer_msg = <<>> /\ peer_sent = 0 /\ peer_state = "none" /\ wire = <<>>

\* the sender serializes its store; the receiver, whose store is empty, has
\* accepted the sender's connection
CodecSerialize ==
    /\ r_pc = "codec"
    /\ peer_msg' = SerializeConfig(g_config_data)
    /\ base_store' = g_config_data
    /\ g_config_data' = EmptyMap
    /\ peer_state' = "open"
    /\ conn' = "accepted"
    /\ r_pc' = "h_recv"
    /\ UNCHANGED <<g_shutdown_flag, file, file_edits, sockVars, mainVars,
                   sendVars, r_fd, handlerVars, conns, peer_sent, wire,
                   ghostVars, pass, lww, lockVars>>

NextCodec ==
    \/ CodecSerialize \/ PeerSend \/ PeerClose
    \/ HandleRecv \/ HandleMore \/ UpdGetLine \/ UpdSet \/ UpdSave

SpecCodec == InitCodec /\ [][NextCodec]_vars

\* C6: when the handler has finished with a connection on which it has
\* read the whole serialized frame, the receiving store equals the store
\* that was serialized.
C6_RoundTrip ==
    (r_pc = "r_close" /\ peer_sent = Len(peer_msg) /\ wire = <<>>) =>
        g_config_data = base_store

(***************************************************************************)
(* Last-write harness (specification SpecLWW): update_config_from_string   *)
(* merges a record (s, k, v1) and then a record (s, k, v2), both in one    *)
(* message or in two messages, one after the other.                        *)
(***************************************************************************)
LwwSections == {SecA, <<"a", "]", "x">>}
LwwKeys == {KeyX, <<"x", "=", "y">>}
\* values that are not empty and do not end in whitespace
LwwValues == {<<"1">>, <<"2">>, <<"1", " ", "2">>, <<"1", NL, "2">>}

InitLWW ==
    /\ InitServing
    /\ g_config_data \in {EmptyMap, StoreA(<<"2">>)}
    /\ file = FileOf(g_config_data)
    /\ base_store = g_config_data
    /\ serial_store = EmptyMap
    /\ pass = 1
    /\ lww \in [section : LwwSections, key : LwwKeys, v1 : LwwValues,
                 v2 : LwwValues, same_message : BOOLEAN]
    /\ upd_data = IF lww.same_message
                  THEN RecordLine(lww.section, lww.key, lww.v1)
                           \o RecordLine(lww.section, lww.key, lww.v2)
                  ELSE RecordLine(lww.section, lww.key, lww.v1)
    /\ header = ToDecimal(Len(upd_data)) \o <<NL>> \o upd_data
    /\ expected_length = Len(upd_data)
    /\ received_data = upd_data
    /\ ss = upd_data
    /\ r_pc = "u_getline"
    /\ conn = "accepted"
    /\ peer_msg = header /\ peer_sent = Len(header) /\ peer_state = "open"
    /\ wire = <<>>

\* the next connection brings the second record: the handler has read the
\* frame and calls update_config_from_string
NextMessage ==
    /\ pass = 1
    /\ ~lww.same_message
    /\ r_pc = "r_close"
    /\ pass' = 2
    /\ upd_data' = RecordLine(lww.section, lww.key, lww.v2)
    /\ header' = ToDecimal(Len(upd_data')) \o <<NL>> \o upd_data'
    /\ expected_length' = Len(upd_data')
    /\ received_data' = upd_data'
    /\ ss' = upd_data'
    /\ peer_msg' = header' /\ peer_sent' = Len(header')
    /\ config_changed' = FALSE
    /\ conn_sets' = 0
    /\ conn_saved' = FALSE
    /\ r_pc' = "u_getline"
    /\ UNCHANGED <<globalVars, sockVars, mainVars, sendVars, r_fd, conn, cur,
                   conns, peer_state, wire, accepts_after_flag, failed_before,
                   base_store, lww, lockVars>>

NextLWW == UpdGetLine \/ UpdSet \/ UpdSave \/ NextMessage

SpecLWW == InitLWW /\ [][NextLWW]_vars

\* both records have been merged
BothMerged == r_pc = "r_close" /\ (lww.same_message \/ pass = 2)

Contains(s, c) == \E i \in 1..Len(s) : s[i] = c

\* the record line "[section]key=value\n" splits back into its parts
Splits(p) ==
    /\ ~Contains(p.section, "]") /\ ~Contains(p.section, NL)
    /\ ~Contains(p.key, "=") /\ ~Contains(p.key, NL)
    /\ ~Contains(p.v1, NL) /\ ~Contains(p.v2, NL)

\* C15 as stated: after (s, k, v1) and then (s, k, v2) have been merged,
\* get(s, k) is v2, for all names and all non-empty values without trailing
\* whitespace.
C15_LastWriteWins ==
    BothMerged => GetValue(g_config_data, lww.section, lww.key, <<>>) = lww.v2

\* C15 as amended: the same, for section names without "]" or newline, key
\* names without "=" or newline, and values without newline.
C15_LastWriteWinsSplit ==
    (BothMerged /\ Splits(lww)) =>
        GetValue(g_config_data, lww.section, lww.key, <<>>) = lww.v2

\* two messages with different values for one key have been merged, the
\* second one changing the store
C15_Witness ==
    /\ BothMerged
    /\ Splits(lww)
    /\ pass = 2
    /\ lww.v1 # lww.v2
    /\ conn_sets = 1

(***************************************************************************)
(* Further properties of the program (specification Spec).                 *)
(***************************************************************************)
\* update_config_from_string has read a record line and compares its value
RecordCompared ==
    /\ r_pc = "u_getline"
    /\ ss' # ss
    /\ ParseLine(GetLine(ss).line).rec

\* the record's value is not the one get_config_value returns
Differs ==
    LET rec == ParseLine(GetLine(ss).line)
    IN  GetValue(g_config_data, rec.section, rec.key, <<>>) # rec.value

UpdateReturns == r_pc \in {"u_getline", "u_save"} /\ r_pc' = "r_close"

\* C14: a record is set exactly when its value differs from the stored one
\* at the comparison; save_config is called only at the end of the data,
\* only when a record was set, and at most once; and when
\* update_config_from_string returns, the file has been rewritten exactly
\* when a record was set.
C14_SaveIffChanged ==
    [][/\ RecordCompared => (r_pc' = "u_set" <=> Differs)
       /\ CallsSet => config_changed'
       /\ CallsSave => config_changed /\ ss = <<>> /\ ~conn_saved
       /\ UpdateReturns => (conn_saved' <=> conn_sets' > 0)]_vars

\* a message of two records, one of them equal to the store: one set, one
\* save
C14_Witness ==
    /\ r_pc = "r_close"
    /\ Len(Records(upd_data)) = 2
    /\ conn_sets = 1
    /\ conn_saved

\* send_config_to_wpf is between its socket() call and its return
InSend == m_pc \in {"send_connect", "send_serialize", "send_loop"}

\* C16: the socket of send_config_to_wpf is open only inside the function;
\* when the function returns, a socket it created has been closed, and
\* closed once; and it returns true only after writing the whole frame.
C16_OutboundReleased ==
    /\ s_closes <= 1
    /\ s_sock = "open" => InSend /\ s_closes = 0
    /\ s_sock = "closed" => s_closes = 1
    /\ m_pc = "send_ret" =>
          /\ s_sock # "open"
          /\ s_sock = "none" => s_closes = 0
          /\ s_result = "true" =>
                /\ s_sock = "closed"
                /\ config_str # <<>>
                /\ total_sent = Len(config_str)

\* send_config_to_wpf returns false after a send error that followed a
\* partial write: its socket has been closed once
C16_Witness ==
    /\ m_pc = "send_ret"
    /\ s_result = "false"
    /\ total_sent > 0
    /\ s_sock = "closed"
    /\ s_closes = 1

\* main has not yet called start_config_receiver
BeforeStart == m_pc \in {"main_load", "main_start"}

\* the receiver thread has been created
ReceiverStarted == r_pc # "idle"

\* send_config_to_wpf has never been called
NothingSent ==
    /\ s_sock = "none" /\ s_closes = 0 /\ s_result = "none"
    /\ config_str = <<>> /\ total_sent = 0

\* the file main loaded at startup could not be opened (nothing has
\* written it since)
InitialLoadFailed ==
    /\ m_pc # "main_load"
    /\ file_edits = 0
    /\ IniParseReturn(file) < 0

\* C17: before start_config_receiver is called there is no receiver thread
\* and nothing has been sent; it is called only after a load_config that
\* succeeded; send_config_to_wpf runs only with the receiver started; and
\* after a failed initial load the exit code is 1, no receiver was started
\* and nothing was sent.
C17_StartupOrder ==
    /\ BeforeStart => ~ReceiverStarted /\ ~joinable /\ NothingSent
    /\ m_pc = "main_start" => IniParseReturn(file) >= 0
    /\ ReceiverStarted => ~BeforeStart /\ exit_code # 1
    /\ m_pc \in {"send_host", "send_port", "send_socket", "send_ret"} \/ InSend
          => ReceiverStarted
    /\ InitialLoadFailed => exit_code = 1
    /\ exit_code = 1 =>
          ~ReceiverStarted /\ ~joinable /\ lsock = "none" /\ NothingSent

\* the initial send has been made, with the receiver thread started
C17_Witness ==
    /\ m_pc = "send_ret"
    /\ cmds = 0
    /\ s_result = "true"
    /\ ReceiverStarted
    /\ exit_code = -1

\* update_config_from_string is running on a length-prefixed message whose
\* whole body arrived
FramedComplete ==
    /\ r_pc \in {"u_getline", "u_set", "u_save"}
    /\ expected_length >= 0
    /\ Len(received_data) >= expected_length

\* C18: the data handed to update_config_from_string for a length-prefixed
\* message whose body arrived in full is expected_length bytes long, and a
\* recv of the body loop asks for no more than the bytes still missing.
C18_BodyIsExpectedLength ==
    /\ FramedComplete => Len(upd_data) = expected_length
    /\ (r_pc = "h_more" /\ Len(received_data) < expected_length) =>
          MoreLen(expected_length, Len(received_data))
              <= expected_length - Len(received_data)

\* C19: CLOSE_SOCKET is called on the listening descriptor at most once, and
\* the receiver is never about to call select or accept on a descriptor
\* that has been closed.
C19_ListenSocketRaceFree ==
    /\ Len(lsock_closers) <= 1
    /\ r_pc \in {"r_select", "r_accept"} => lsock # "closed"

(***************************************************************************)
(* Lock harness (specification SpecLock): the two threads call the         *)
(* functions that take g_config_mutex.  Each function is run step by step: *)
(* the lock_guard's constructor, the statements of the body, the           *)
(* lock_guard's destructor.                                                *)
(***************************************************************************)
\* mutant: the lock_guard does not wait for the owner to unlock
LockFreeAlways(owner) == TRUE

\* std::lock_guard<std::mutex> lock(g_config_mutex) returns once no thread
\* owns the mutex
LockFree(owner) == owner = "free"

\* mutant: set_config_value calls get_config_value inside its critical section
CallsInsideNested(fn) ==
    IF fn = "set_config_value" THEN {"get_config_value"} ELSE {}

\* the functions taking g_config_mutex that fn calls while its lock_guard is
\* alive: load_config calls ini_parse and ini_parse_handler, which take no
\* lock; save_config, get_config_value, set_config_value and
\* serialize_config call none of the program's functions
CallsInside(fn) == {}

\* the call sites of the foreground thread: load_config (main),
\* get_config_value and serialize_config (send_config_to_wpf)
MainCalls ==
    { [fn |-> "load_config", section |-> <<>>, key |-> <<>>, value |-> <<>>],
      [fn |-> "get_config_value", section |-> CONFIG_SYNC, key |-> WPF_HOST,
       value |-> DefaultHost],
      [fn |-> "get_config_value", section |-> CONFIG_SYNC,
       key |-> WPF_RECV_PORT, value |-> DefaultSendPort],
      [fn |-> "serialize_config", section |-> <<>>, key |-> <<>>, value |-> <<>>] }

\* the (section, key) pairs and values the peer's records name
LockKeys == {<<CONFIG_SYNC, WPF_HOST>>, <<SecA, KeyX>>}
LockValues == {<<"1">>, <<"2">>}

\* the call sites of the receiver thread: get_config_value
\* (receive_config_updates), get_config_value, set_config_value and
\* save_config (update_config_from_string)
RecvCalls ==
    { [fn |-> "get_config_value", section |-> CONFIG_SYNC,
       key |-> CPP_RECV_PORT, value |-> DefaultRecvPort],
      [fn |-> "save_config", section |-> <<>>, key |-> <<>>, value |-> <<>>] }
    \cup { [fn |-> "get_config_value", section |-> sk[1], key |-> sk[2],
            value |-> <<>>] : sk \in LockKeys }
    \cup { [fn |-> "set_config_value", section |-> sk[1], key |-> sk[2],
            value |-> v] : sk \in LockKeys, v \in LockValues }

ThreadCalls(t) == IF t = "main" THEN MainCalls ELSE RecvCalls

\* (*pconfig)[section][name] = value for every item ini_parse hands over
Populate(store, data) ==
    [s \in DOMAIN store \cup DOMAIN data |->
        [k \in Keys(store, s) \cup Keys(data, s) |->
            IF k \in Keys(data, s) THEN data[s][k] ELSE store[s][k]]]

\* g_config_data[section][key]: operator[] inserts what is absent
InsertDefault(store, section, key) ==
    IF section \in DOMAIN store /\ key \in DOMAIN store[section]
    THEN store
    ELSE SetValue(store, section, key, <<>>)

BoolReturn(b) == [kind |-> IF b THEN "true" ELSE "false", val |-> <<>>]
ValueReturn(v) == [kind |-> "value", val |-> v]

\* the store after a call that runs with no other call under way
SerialStore(store, op, f) ==
    CASE op.fn = "load_config" -> LoadConfigStore(store, f)
      [] op.fn = "set_config_value" -> SetValue(store, op.section, op.key, op.value)
      [] OTHER -> store

\* what such a call returns
SerialReturn(store, op, f) ==
    CASE op.fn = "load_config" -> BoolReturn(LoadConfigOk(f))
      [] op.fn = "get_config_value" ->
            ValueReturn(GetValue(store, op.section, op.key, op.value))
      [] op.fn = "serialize_config" -> ValueReturn(SerializeConfig(store))
      [] OTHER -> NoReturn

programVars ==
    <<g_shutdown_flag, file_edits, sockVars, mainVars, sendVars, r_pc, r_fd,
      conn, handlerVars, peerVars, ghostVars, pass, base_store, lww>>

InitLock ==
    /\ InitServing
    /\ g_config_data \in {EmptyMap, StoreA(<<"1">>)}
    /\ file \in FileChoices
    /\ serial_store = g_config_data
    /\ pass = 0
    /\ lww = NoPair
    /\ base_store = EmptyMap
    /\ upd_data = <<>>
    /\ header = <<>> /\ received_data = <<>> /\ expected_length = -1
    /\ ss = <<>>
    /\ r_pc = "r_while"
    /\ conn = "none"
    /\ peer_msg = <<>> /\ peer_sent = 0 /\ peer_state = "none" /\ wire = <<>>

\* a thread calls one of the locking functions
LkCall(t) ==
    /\ t_pc[t] = "idle"
    /\ calls < MaxCalls
    /\ calls' = calls + 1
    /\ \E op \in ThreadCalls(t) : t_op' = [t_op EXCEPT ![t] = op]
    /\ t_pc' = [t_pc EXCEPT ![t] = "lock"]
    /\ UNCHANGED <<g_config_data, file, g_config_mutex, t_ret, serial_store,
                   serial_ret, programVars>>

\* std::lock_guard<std::mutex> lock(g_config_mutex)
LkAcquire(t) ==
    /\ t_pc[t] = "lock"
    /\ LockFree(g_config_mutex)
    /\ g_config_mutex' = t
    /\ t_pc' = [t_pc EXCEPT ![t] = "in"]
    /\ serial_store' = SerialStore(serial_store, t_op[t], file)
    /\ serial_ret' = [serial_ret EXCEPT ![t] = SerialReturn(serial_store, t_op[t], file)]
    /\ UNCHANGED <<g_config_data, file, t_op, t_ret, calls, programVars>>

\* the body up to its first write of the store: g_config_data.clear()
\* (load_config), the whole of save_config, get_config_value and
\* serialize_config, the operator[] calls of set_config_value
LkBody(t) ==
    /\ t_pc[t] = "in"
    /\ LET op == t_op[t]
       IN  IF CallsInside(op.fn) # {}
           THEN /\ \E f \in CallsInside(op.fn) :
                      t_op' = [t_op EXCEPT ![t] = [op EXCEPT !.fn = f]]
                /\ t_pc' = [t_pc EXCEPT ![t] = "lock"]
                /\ UNCHANGED <<g_config_data, file, t_ret>>
           ELSE /\ UNCHANGED t_op
                /\ CASE op.fn = "load_config" ->
                          /\ g_config_data' = EmptyMap
                          /\ t_pc' = [t_pc EXCEPT ![t] = "in2"]
                          /\ UNCHANGED <<file, t_ret>>
                     [] op.fn = "save_config" ->
                          /\ \/ file' = FileOf(g_config_data)
                             \/ UNCHANGED file
                          /\ t_pc' = [t_pc EXCEPT ![t] = "out"]
                          /\ UNCHANGED <<g_config_data, t_ret>>
                     [] op.fn = "get_config_value" ->
                          /\ t_ret' = [t_ret EXCEPT ![t] =
                                ValueReturn(GetValue(g_config_data, op.section,
                                                     op.key, op.value))]
                          /\ t_pc' = [t_pc EXCEPT ![t] = "out"]
                          /\ UNCHANGED <<g_config_data, file>>
                     [] op.fn = "set_config_value" ->
                          /\ g_config_data' =
                                InsertDefault(g_config_data, op.section, op.key)
                          /\ t_pc' = [t_pc EXCEPT ![t] = "in2"]
                          /\ UNCHANGED <<file, t_ret>>
                     [] op.fn = "serialize_config" ->
                          /\ t_ret' = [t_ret EXCEPT ![t] =
                                ValueReturn(SerializeConfig(g_config_data))]
                          /\ t_pc' = [t_pc EXCEPT ![t] = "out"]
                          /\ UNCHANGED <<g_config_data, file>>
    /\ UNCHANGED <<g_config_mutex, serial_store, serial_ret, calls, programVars>>

\* the rest of the body: ini_parse and the return value (load_config), the
\* assignment of the value (set_config_value)
LkBody2(t) ==
    /\ t_pc[t] = "in2"
    /\ LET op == t_op[t]
       IN  IF op.fn = "load_config"
           THEN /\ g_config_data' = Populate(g_config_data, IniParseData(file))
                /\ t_ret' = [t_ret EXCEPT ![t] =
                                BoolReturn(~LoadFailed(IniParseReturn(file)))]
           ELSE /\ g_config_data' =
                      SetValue(g_config_data, op.section, op.key, op.value)
                /\ UNCHANGED t_ret
    /\ t_pc' = [t_pc EXCEPT ![t] = "out"]
    /\ UNCHANGED <<file, g_config_mutex, t_op, serial_store, serial_ret, calls,
                   programVars>>

\* the function returns: the lock_guard's destructor unlocks the mutex
LkRelease(t) ==
    /\ t_pc[t] = "out"
    /\ g_config_mutex' = "free"
    /\ t_pc' = [t_pc EXCEPT ![t] = "idle"]
    /\ t_op' = [t_op EXCEPT ![t] = NoCall]
    /\ t_ret' = [t_ret EXCEPT ![t] = NoReturn]
    /\ serial_ret' = [serial_ret EXCEPT ![t] = NoReturn]
    /\ UNCHANGED <<g_config_data, file, serial_store, calls, programVars>>

NextLock ==
    \E t \in Threads :
        LkCall(t) \/ LkAcquire(t) \/ LkBody(t) \/ LkBody2(t) \/ LkRelease(t)

SpecLock == InitLock /\ [][NextLock]_vars

\* the thread is between the lock_guard's constructor and its destructor
InCritical(t) == t_pc[t] \in {"in", "in2", "out"}

\* C11: at most one thread is inside a critical section, a thread inside
\* one owns the mutex, every call returns what it returns when the calls
\* run one after another in the order the mutex was acquired, and between
\* critical sections the store is the store of that sequential run.
C11_StoreSerialized ==
    /\ ~(InCritical("main") /\ InCritical("recv"))
    /\ \A t \in Threads : InCritical(t) => g_config_mutex = t
    /\ \A t \in Threads : t_pc[t] = "out" => t_ret[t] = serial_ret[t]
    /\ (\A t \in Threads : ~InCritical(t)) => g_config_data = serial_store

\* the receiver is half way through set_config_value on a key that the
\* foreground thread is waiting to read
C11_Witness ==
    /\ t_pc["recv"] = "in2"
    /\ t_op["recv"].fn = "set_config_value"
    /\ t_pc["main"] = "lock"
    /\ t_op["main"].fn = "get_config_value"
    /\ t_op["main"].key = t_op["recv"].key
    /\ g_config_data # serial_store

\* a thread that can take a step of a locking function eventually takes one
SpecLockFair ==
    /\ SpecLock
    /\ \A t \in Threads :
          WF_vars(LkAcquire(t) \/ LkBody(t) \/ LkBody2(t) \/ LkRelease(t))

\* no thread is at a lock_guard's constructor while it owns the mutex
NoSelfAcquire == \A t \in Threads : t_pc[t] = "lock" => g_config_mutex # t

\* a thread inside a critical section can go on by itself, up to the unlock
HolderProceeds ==
    \A t \in Threads :
        InCritical(t) => ENABLED (LkBody(t) \/ LkBody2(t) \/ LkRelease(t))

\* C20: no thread acquires the mutex while it owns it, a thread that owns
\* it can always go on to the release without waiting for anything, and a
\* thread waiting for the mutex eventually gets it.
C20_LockDeadlockFree ==
    /\ [](NoSelfAcquire /\ HolderProceeds)
    /\ \A t \in Threads : (t_pc[t] = "lock") ~> (t_pc[t] = "in")

\* the receiver waits for the mutex while the foreground thread, inside
\* load_config, is about to run ini_parse
C20_Witness ==
    /\ t_pc["recv"] = "lock"
    /\ g_config_mutex = "main"
    /\ t_op["main"].fn = "load_config"
    /\ t_pc["main"] = "in2"

====
